---- MODULE Spec2Model ----
(***************************************************************************)
(* A model of Comparable-valuation.py: keyword extraction, the peer        *)
(* screener, the valuation engine, the main pipeline and the spreadsheet   *)
(* store.                                                                  *)
(*                                                                         *)
(* Python values are modelled as follows.                                  *)
(*   str            a sequence of one-character strings                    *)
(*   optional value a record [present, v]; None is present = FALSE         *)
(*   float          an exact rational [n, d] with d > 0 (every input of    *)
(*                  the model has a denominator that is a power of two,    *)
(*                  so the doubles of the program are exact as well)       *)
(*   a call         a record [exc, val]: exc = "none" when it returns val, *)
(*                  otherwise the name of the exception it raises          *)
(***************************************************************************)
EXTENDS Integers, Sequences, FiniteSets, TLC

VARIABLES
    \* extract_keywords / keyword_match_percentage applied to free inputs
    kwPc, kwDesc, kwName, kwPeerDesc, kwPeerName, kwTargetKw, kwPeerKw, kwPct,
    \* find_comparables: position, target metrics, target keywords, loop
    \* index, accepted peers, and the peer screened last
    scrPc, scrTarget, scrKw, scrI, scrComparables, scrLast,
    \* comparable_company_analysis: position, number of comparables, target
    \* metrics, loop index, pe_ratios, ev_ebitda_ratios, fair_values
    valPc, valN, valTarget, valI, valPE, valEV, valFair,
    \* the spreadsheet file comparable_analysis.xlsx
    file,
    \* sequential calls of append_to_excel: calls made, the file before the
    \* last call, the batch of the last call
    stCalls, stBefore, stBatch,
    \* concurrent calls of append_to_excel: whether calls are serialised,
    \* each process's position, loaded frame, batch and finished calls, and
    \* the rows appended by finished calls
    singleWriter, appPc, appDf, appData, appCalls, appended,
    \* main: position, the ticker typed, whether search_stock found a
    \* shortName and what the user answered, target_ticker, target_metrics,
    \* comparables, fair_values, the last report printed, whether line 197
    \* fetched, whether the screener and the valuation ran, the number of
    \* writes of the file, and the file at the start
    mainPc, mainInput, mainShortName, mainAnswer, mainTicker, mainTarget,
    mainComparables, mainFair, mainReport, mainFetched, mainScreened,
    mainValued, mainWrites, mainFile0

kwVars == <<kwPc, kwDesc, kwName, kwPeerDesc, kwPeerName, kwTargetKw, kwPeerKw, kwPct>>

scrVars == <<scrPc, scrTarget, scrKw, scrI, scrComparables, scrLast>>

valVars == <<valPc, valN, valTarget, valI, valPE, valEV, valFair>>

stVars == <<stCalls, stBefore, stBatch>>
appVars == <<singleWriter, appPc, appDf, appData, appCalls, appended>>

mainVars == <<mainPc, mainInput, mainShortName, mainAnswer, mainTicker, mainTarget,
              mainComparables, mainFair, mainReport, mainFetched, mainScreened,
              mainValued, mainWrites, mainFile0>>

vars == <<kwVars, scrVars, valVars, file, stVars, appVars, mainVars>>

\* what the actions of each part leave alone
KwOnly == UNCHANGED <<scrVars, valVars, file, stVars, appVars, mainVars>>
ScrOnly == UNCHANGED <<kwVars, valVars, file, stVars, appVars, mainVars>>
ValOnly == UNCHANGED <<kwVars, scrVars, file, stVars, appVars, mainVars>>
StoreOnly == UNCHANGED <<kwVars, scrVars, valVars, appVars, mainVars>>
AppOnly == UNCHANGED <<kwVars, scrVars, valVars, stVars, mainVars>>
MainOnly == UNCHANGED <<kwVars, scrVars, valVars, stVars, appVars>>

----------------------------------------------------------------------------
(* Python values *)

Range(s) == { s[i] : i \in 1..Len(s) }

Some(x) == [present |-> TRUE, v |-> x]
NoneStr == [present |-> FALSE, v |-> <<>>]
NoneNum == [present |-> FALSE, v |-> 0]

Returns(x) == [exc |-> "none", val |-> x]
Raises(e) == [exc |-> e, val |-> <<>>]

UpperCase == <<"A","B","C","D","E","F","G","H","I","J","K","L","M",
               "N","O","P","Q","R","S","T","U","V","W","X","Y","Z">>
LowerCase == <<"a","b","c","d","e","f","g","h","i","j","k","l","m",
               "n","o","p","q","r","s","t","u","v","w","x","y","z">>
WhiteSpace == {" ", "\t", "\n"}

\* str.lower() on one character and on a string
LowerChar(c) ==
    IF \E i \in 1..26 : UpperCase[i] = c
    THEN LowerCase[CHOOSE i \in 1..26 : UpperCase[i] = c]
    ELSE c

Lower(s) == [i \in 1..Len(s) |-> LowerChar(s[i])]

\* re.sub(r'[^a-zA-Z\s]', '', s): every character that is neither an ASCII
\* letter nor whitespace is deleted (nothing is put in its place).
KeepsChar(c) == c \in Range(UpperCase) \cup Range(LowerCase) \cup WhiteSpace

StripNonAlpha(s) == SelectSeq(s, KeepsChar)

\* str.split(): the maximal runs of non-whitespace characters, in order.
\* SplitFrom(s, i, acc) adds the words of s[i..] to acc, one word per step.
RECURSIVE SplitFrom(_, _, _)
SplitFrom(s, i, acc) ==
    IF \A j \in i..Len(s) : s[j] \in WhiteSpace THEN acc
    ELSE LET start == CHOOSE j \in i..Len(s) :
                          /\ s[j] \notin WhiteSpace
                          /\ \A k \in i..(j - 1) : s[k] \in WhiteSpace
             end == CHOOSE j \in start..Len(s) :
                        /\ \A k \in start..j : s[k] \notin WhiteSpace
                        /\ (j = Len(s) \/ s[j + 1] \in WhiteSpace)
         IN  SplitFrom(s, end + 1, Append(acc, SubSeq(s, start, end)))

Split(s) == SplitFrom(s, 1, <<>>)

----------------------------------------------------------------------------
(* Keyword extraction *)

STOPWORDS ==
    {
      <<"t", "h", "e">>,
      <<"a", "n", "d">>,
      <<"a">>,
      <<"i", "n">>,
      <<"o", "f">>,
      <<"f", "o", "r">>,
      <<"w", "i", "t", "h">>,
      <<"o", "n">>,
      <<"a", "t">>,
      <<"t", "o">>,
      <<"b", "y">>,
      <<"f", "r", "o", "m">>,
      <<"a", "s">>,
      <<"t", "h", "a", "t">>,
      <<"w", "h", "i", "c", "h">>,
      <<"t", "h", "i", "s">>,
      <<"t", "h", "e", "s", "e">>,
      <<"t", "h", "o", "s", "e">>,
      <<"i", "t">>,
      <<"i", "s">>,
      <<"a", "r", "e">>,
      <<"b", "e">>,
      <<"h", "a", "s">>,
      <<"h", "a", "v", "e">>,
      <<"w", "a", "s">>,
      <<"w", "e", "r", "e">>,
      <<"b", "e", "e", "n">>,
      <<"b", "e", "i", "n", "g">>,
      <<"i", "t", "s">>,
      <<"a", "n">>,
      <<"o", "r">>,
      <<"b", "u", "t">>,
      <<"a", "l", "s", "o">>,
      <<"a", "b", "o", "u", "t">>,
      <<"u", "n", "d", "e", "r">>,
      <<"o", "v", "e", "r">>,
      <<"t", "h", "r", "o", "u", "g", "h">>,
      <<"t", "h", "r", "o", "u", "g", "h", "o", "u", "t">>,
      <<"u", "s", "i", "n", "g">>,
      <<"u", "t", "i", "l", "i", "z", "i", "n", "g">>,
      <<"t", "h", "e", "i", "r">>,
      <<"o", "t", "h", "e", "r">>
    }

\* The filter of the list comprehension, for one word; name is a str.
IsKeyword(word, name) ==
    /\ word \notin STOPWORDS
    /\ word # Lower(name)
    /\ Len(word) > 3

\* extract_keywords(description, company_name), both optional strings.
\* re.sub raises TypeError on None; company_name.lower() is evaluated for
\* every word that is not a stopword and raises AttributeError on None.
extract_keywords(description, company_name) ==
    IF ~description.present THEN Raises("TypeError")
    ELSE LET words == Split(Lower(StripNonAlpha(description.v)))
         IN  IF ~company_name.present
             THEN IF \E i \in 1..Len(words) : words[i] \notin STOPWORDS
                  THEN Raises("AttributeError")
                  ELSE Returns(<<>>)
             ELSE Returns(SelectSeq(words, LAMBDA w : IsKeyword(w, company_name.v)))

\* keyword_match_percentage(target_keywords, peer_keywords) on two lists.
\* The value n/d stands for the float len(overlap) / len(target_keywords);
\* the percentage is 100 * n / d.
keyword_match_percentage(target_keywords, peer_keywords) ==
    IF peer_keywords = <<>> THEN Returns([n |-> 0, d |-> 1])
    ELSE IF Len(target_keywords) = 0 THEN Raises("ZeroDivisionError")
    ELSE Returns([n |-> Cardinality(Range(target_keywords) \cap Range(peer_keywords)),
                  d |-> Len(target_keywords)])

----------------------------------------------------------------------------
(* The two functions applied to free inputs *)

\* Longest description, in words, that the keyword specification draws.
MaxWords == 2

TargetTokens ==
    { <<"A", "c", "m", "e">>,
      <<"C", "o", "r", "p", ".">>,
      <<"t", "h", "e">>,
      <<"f", "o", "o", "d">>,
      <<"c", "o", "r", "n">> }
PeerTokens ==
    { <<"f", "o", "o", "d">>,
      <<"c", "o", "r", "n">>,
      <<"c", "o", "r", "n", "-", "o", "i", "l">>,
      <<"w", "i", "t", "h">>,
      <<"B", "u", "n", "g", "e">> }
AcmeCorp == <<"A", "c", "m", "e", " ", "C", "o", "r", "p">>
ACME == <<"A", "C", "M", "E">>
Bunge == <<"B", "u", "n", "g", "e">>

RECURSIVE JoinWords(_)
JoinWords(ws) ==
    IF ws = <<>> THEN <<>>
    ELSE IF Len(ws) = 1 THEN ws[1]
    ELSE ws[1] \o <<" ">> \o JoinWords(Tail(ws))

Descriptions(tokens) ==
    { JoinWords(ws) : ws \in UNION { [1..n -> tokens] : n \in 0..MaxWords } }

NoResult == Raises("not called")

KwIdle ==
    /\ kwPc = "idle"
    /\ kwDesc = <<>> /\ kwName = <<>> /\ kwPeerDesc = <<>> /\ kwPeerName = <<>>
    /\ kwTargetKw = NoResult /\ kwPeerKw = NoResult /\ kwPct = NoResult

KwInit ==
    /\ kwPc = "start"
    /\ kwDesc \in Descriptions(TargetTokens)
    /\ kwName \in {AcmeCorp, ACME}
    /\ kwPeerDesc \in Descriptions(PeerTokens)
    /\ kwPeerName = Bunge
    /\ kwTargetKw = NoResult /\ kwPeerKw = NoResult /\ kwPct = NoResult

KwExtractTarget ==
    /\ kwPc = "start"
    /\ kwTargetKw' = extract_keywords(Some(kwDesc), Some(kwName))
    /\ kwPc' = "target"
    /\ UNCHANGED <<kwDesc, kwName, kwPeerDesc, kwPeerName, kwPeerKw, kwPct>>
    /\ KwOnly

KwExtractPeer ==
    /\ kwPc = "target"
    /\ kwPeerKw' = extract_keywords(Some(kwPeerDesc), Some(kwPeerName))
    /\ kwPc' = "peer"
    /\ UNCHANGED <<kwDesc, kwName, kwPeerDesc, kwPeerName, kwTargetKw, kwPct>>
    /\ KwOnly

KwMatch ==
    /\ kwPc = "peer"
    /\ kwPct' = keyword_match_percentage(kwTargetKw.val, kwPeerKw.val)
    /\ kwPc' = "matched"
    /\ UNCHANGED <<kwDesc, kwName, kwPeerDesc, kwPeerName, kwTargetKw, kwPeerKw>>
    /\ KwOnly

KwNext == KwExtractTarget \/ KwExtractPeer \/ KwMatch

\* C2: keyword_match_percentage never fails and returns, in [0, 100],
\* (distinct common keywords) / (distinct target keywords) x 100, and 0 for a
\* peer without keywords.
C2_MatchIsDistinctRatio ==
    kwPc = "matched" =>
        LET T == Range(kwTargetKw.val)
            P == Range(kwPeerKw.val)
        IN  /\ kwPct.exc = "none"
            /\ 0 <= kwPct.val.n /\ kwPct.val.n <= kwPct.val.d
            /\ (P = {} => kwPct.val.n = 0)
            /\ (T # {} => kwPct.val.n * Cardinality(T) = Cardinality(T \cap P) * kwPct.val.d)

\* C3: the keywords extracted for a company contain no word of its
\* lowercased name.
C3_NoNameWordInKeywords ==
    kwPc # "start" /\ kwPc # "idle" =>
        Range(kwTargetKw.val) \cap Range(Split(Lower(kwName))) = {}

----------------------------------------------------------------------------
(* Provider records and the peer screener *)

\* The dictionary built by fetch_metrics_and_description.  Amounts are in
\* millions (of dollars, of shares).  Revenue and Industry are only printed.
Metrics(price, earnings, ebitda, marketCap, shares, description, companyName) ==
    [ Price |-> price, Earnings |-> earnings, Ebitda |-> ebitda,
      Revenue |-> NoneNum, MarketCap |-> marketCap,
      SharesOutstanding |-> shares, Industry |-> NoneStr,
      Description |-> description, CompanyName |-> companyName ]

\* Truth value of an optional number in a Python condition: None and 0 are false.
Truthy(x) == x.present /\ x.v # 0

\* Defaults of find_comparables: tolerance = 0.75 = ToleranceNum / ToleranceDen.
ToleranceNum == 3
ToleranceDen == 4
keyword_min_threshold == 11
keyword_max_threshold == 19

\* keyword_min_threshold <= match_percentage <= keyword_max_threshold,
\* where match_percentage = 100 * p.n / p.d
InBand(p) ==
    /\ keyword_min_threshold * p.d <= 100 * p.n
    /\ 100 * p.n <= keyword_max_threshold * p.d

\* abs(peer - target) / target <= tolerance, for target # 0
WithinTolerance(peerCap, targetCap) ==
    LET diff == IF peerCap >= targetCap THEN peerCap - targetCap ELSE targetCap - peerCap
    IN  IF targetCap > 0
        THEN ToleranceDen * diff <= ToleranceNum * targetCap
        ELSE TRUE

\* The if / elif of the loop body: TRUE when the peer is appended.
AcceptPeerPrimaryOnly(capKnown, within, inBand) ==
    capKnown /\ within /\ inBand

AcceptPeer(capKnown, within, inBand) ==
    IF capKnown /\ within /\ inBand THEN TRUE
    ELSE IF inBand THEN TRUE
    ELSE FALSE

\* One iteration of the loop of find_comparables, given what
\* fetch_metrics_and_description did for the peer.
ScreenPeer(target_market_cap, target_keywords, fetched) ==
    IF fetched.exc # "none" THEN Raises(fetched.exc)
    ELSE
    LET peer_metrics == fetched.val
        peer_keywords == extract_keywords(peer_metrics.Description,
                                          peer_metrics.CompanyName)
    IN  IF peer_keywords.exc # "none" THEN Raises(peer_keywords.exc)
        ELSE
        LET match_percentage ==
                keyword_match_percentage(target_keywords, peer_keywords.val)
        IN  IF match_percentage.exc # "none" THEN Raises(match_percentage.exc)
            ELSE IF ~Truthy(peer_metrics.MarketCap)
            THEN Returns([pct |-> match_percentage.val,
                          accepted |-> AcceptPeer(FALSE, FALSE, InBand(match_percentage.val))])
            ELSE IF ~target_market_cap.present THEN Raises("TypeError")
            ELSE IF target_market_cap.v = 0 THEN Raises("ZeroDivisionError")
            ELSE Returns([pct |-> match_percentage.val,
                          accepted |->
                              AcceptPeer(TRUE,
                                         WithinTolerance(peer_metrics.MarketCap.v,
                                                         target_market_cap.v),
                                         InBand(match_percentage.val))])

\* The loop of find_comparables over peers[i..], given the outcome of each
\* peer's fetch; the first exception ends the call.
RECURSIVE ScreenFrom(_, _, _, _, _, _)
ScreenFrom(target_market_cap, target_keywords, peers, fetches, i, comparables) ==
    IF i > Len(peers) THEN Returns(comparables)
    ELSE LET r == ScreenPeer(target_market_cap, target_keywords, fetches[i])
         IN  IF r.exc # "none" THEN Raises(r.exc)
             ELSE ScreenFrom(target_market_cap, target_keywords, peers, fetches, i + 1,
                             IF r.val.accepted THEN Append(comparables, peers[i])
                             ELSE comparables)

\* find_comparables(target_metrics, peer_companies) with the default thresholds.
find_comparables(target_metrics, peer_companies, fetches) ==
    LET target_keywords == extract_keywords(target_metrics.Description,
                                            target_metrics.CompanyName)
    IN  IF target_keywords.exc # "none" THEN Raises(target_keywords.exc)
        ELSE ScreenFrom(target_metrics.MarketCap, target_keywords.val,
                        peer_companies, fetches, 1, <<>>)

\* main's hardcoded peer list
PEER_COMPANIES == <<"ADM", "BG", "INGR", "LANC", "HRL">>

\* "Acme procures grain, oilseed, corn and wheat; makes flour, protein meal, starches, sweeteners, ethanol and biodiesel; sells feed, vegetable oil, nutrition ingredients, commodities, storage."
TargetDesc20 ==
    <<"A","c","m","e"," ","p","r","o","c","u","r","e","s"," ","g","r","a",
      "i","n",","," ","o","i","l","s","e","e","d",","," ","c","o","r","n",
      " ","a","n","d"," ","w","h","e","a","t",";"," ","m","a","k","e","s",
      " ","f","l","o","u","r",","," ","p","r","o","t","e","i","n"," ","m",
      "e","a","l",","," ","s","t","a","r","c","h","e","s",","," ","s","w",
      "e","e","t","e","n","e","r","s",","," ","e","t","h","a","n","o","l",
      " ","a","n","d"," ","b","i","o","d","i","e","s","e","l",";"," ","s",
      "e","l","l","s"," ","f","e","e","d",","," ","v","e","g","e","t","a",
      "b","l","e"," ","o","i","l",","," ","n","u","t","r","i","t","i","o",
      "n"," ","i","n","g","r","e","d","i","e","n","t","s",","," ","c","o",
      "m","m","o","d","i","t","i","e","s",","," ","s","t","o","r","a","g",
      "e",".">>

\* "Acme is a processor of grain, oilseed, corn and wheat for the food industry."
TargetDesc7 ==
    <<"A","c","m","e"," ","i","s"," ","a"," ","p","r","o","c","e","s","s",
      "o","r"," ","o","f"," ","g","r","a","i","n",","," ","o","i","l","s",
      "e","e","d",","," ","c","o","r","n"," ","a","n","d"," ","w","h","e",
      "a","t"," ","f","o","r"," ","t","h","e"," ","f","o","o","d"," ","i",
      "n","d","u","s","t","r","y",".">>

\* "Acme: grain, oilseed, corn, wheat."
TargetDesc4 ==
    <<"A","c","m","e",":"," ","g","r","a","i","n",","," ","o","i","l","s",
      "e","e","d",","," ","c","o","r","n",","," ","w","h","e","a","t",".">>

\* "Bunge trades grain and oilseed, plus flour and sugar."
PeerDesc3 ==
    <<"B","u","n","g","e"," ","t","r","a","d","e","s"," ","g","r","a","i",
      "n"," ","a","n","d"," ","o","i","l","s","e","e","d",","," ","p","l",
      "u","s"," ","f","l","o","u","r"," ","a","n","d"," ","s","u","g","a",
      "r",".">>

\* "Bunge: grain, oilseed, corn, flour, ethanol, sugar."
PeerDesc5 ==
    <<"B","u","n","g","e",":"," ","g","r","a","i","n",","," ","o","i","l",
      "s","e","e","d",","," ","c","o","r","n",","," ","f","l","o","u","r",
      ","," ","e","t","h","a","n","o","l",","," ","s","u","g","a","r",".">>

\* "Bunge mills wheat."
PeerDesc1 ==
    <<"B","u","n","g","e"," ","m","i","l","l","s"," ","w","h","e","a","t",
      ".">>

\* "It is the other."
PeerDescStop ==
    <<"I","t"," ","i","s"," ","t","h","e"," ","o","t","h","e","r",".">>

\* ""
PeerDescEmpty ==
    <<>>

----------------------------------------------------------------------------
(* The screener, one loop iteration at a time *)

\* Number of peers of PEER_COMPANIES that the screener specification screens.
ScrPeers == 3

ScrPeerList == SubSeq(PEER_COMPANIES, 1, IF ScrPeers < 5 THEN ScrPeers ELSE 5)

ScrTargets ==
    { Metrics(NoneNum, NoneNum, NoneNum, cap, NoneNum, d, Some(ACME)) :
        cap \in {NoneNum, Some(0), Some(1000)},
        d \in {Some(TargetDesc20), Some(TargetDesc7), Some(TargetDesc4)} }

\* What the provider may answer for a peer: an error, or a record.
ScrFetches ==
    {Raises("ProviderError")} \cup
    { Returns(Metrics(NoneNum, NoneNum, NoneNum, cap, NoneNum, d, nm)) :
        cap \in {NoneNum, Some(1000), Some(10000)},
        d \in {NoneStr, Some(PeerDesc3), Some(PeerDesc5), Some(PeerDesc1),
               Some(PeerDescStop), Some(PeerDescEmpty)},
        nm \in {NoneStr, Some(Bunge)} }

NoPeer == [ticker |-> "", fetched |-> NoResult, result |-> NoResult]

ScrIdle ==
    /\ scrPc = "idle" /\ scrTarget = Metrics(NoneNum, NoneNum, NoneNum, NoneNum, NoneNum, NoneStr, NoneStr)
    /\ scrKw = NoResult /\ scrI = 0 /\ scrComparables = <<>> /\ scrLast = NoPeer

ScrInit ==
    /\ scrPc = "call"
    /\ scrTarget \in ScrTargets
    /\ scrKw = NoResult /\ scrI = 0 /\ scrComparables = <<>> /\ scrLast = NoPeer

\* lines 78-85: the target's keywords
ScrStart ==
    /\ scrPc = "call"
    /\ scrKw' = extract_keywords(scrTarget.Description, scrTarget.CompanyName)
    /\ scrPc' = IF scrKw'.exc = "none" THEN "loop" ELSE "raised"
    /\ scrI' = 1
    /\ UNCHANGED <<scrTarget, scrComparables, scrLast>>
    /\ ScrOnly

\* lines 87-111: one peer
ScrPeer ==
    /\ scrPc = "loop" /\ scrI <= Len(ScrPeerList)
    /\ \E fetched \in ScrFetches :
         \E r \in {ScreenPeer(scrTarget.MarketCap, scrKw.val, fetched)} :
             /\ scrLast' = [ticker |-> ScrPeerList[scrI], fetched |-> fetched, result |-> r]
             /\ scrPc' = IF r.exc = "none" THEN "loop" ELSE "raised"
             /\ scrComparables' = IF r.exc = "none" /\ r.val.accepted
                                  THEN Append(scrComparables, ScrPeerList[scrI])
                                  ELSE scrComparables
             /\ scrI' = IF r.exc = "none" THEN scrI + 1 ELSE scrI
    /\ UNCHANGED <<scrTarget, scrKw>>
    /\ ScrOnly

\* line 113
ScrReturn ==
    /\ scrPc = "loop" /\ scrI > Len(ScrPeerList)
    /\ scrPc' = "returned"
    /\ UNCHANGED <<scrTarget, scrKw, scrI, scrComparables, scrLast>>
    /\ ScrOnly

ScrNext == ScrStart \/ ScrPeer \/ ScrReturn

ScrScreened == scrLast.ticker # "" /\ scrLast.result.exc = "none"

\* C1: with a target market cap that is neither None nor 0, a screened peer
\* is in the result exactly when its match percentage lies in [11, 19],
\* whatever its own market cap.
C1_AcceptedIffInBand ==
    ScrScreened /\ Truthy(scrTarget.MarketCap) =>
        LET p == scrLast.result.val.pct
        IN  (scrLast.ticker \in Range(scrComparables))
                <=> (11 * p.d <= 100 * p.n /\ 100 * p.n <= 19 * p.d)

\* a peer at exactly 15% whose market cap is ten times the target's is accepted
C1_Witness ==
    /\ ScrScreened /\ Truthy(scrTarget.MarketCap)
    /\ scrLast.fetched.val.MarketCap = Some(10 * scrTarget.MarketCap.v)
    /\ 100 * scrLast.result.val.pct.n = 15 * scrLast.result.val.pct.d
    /\ scrLast.ticker \in Range(scrComparables)

\* a peer at exactly 25% with the target's own market cap is rejected
C1_WitnessRejected ==
    /\ ScrScreened /\ Truthy(scrTarget.MarketCap)
    /\ scrLast.fetched.val.MarketCap = scrTarget.MarketCap
    /\ 100 * scrLast.result.val.pct.n = 25 * scrLast.result.val.pct.d
    /\ scrLast.ticker \notin Range(scrComparables)

ScrPeerFailed ==
    /\ scrLast.ticker # ""
    /\ \/ scrLast.fetched.exc # "none"
       \/ ~scrLast.fetched.val.Description.present
       \/ ~scrLast.fetched.val.CompanyName.present

\* C7: a peer whose fetch fails, or whose record has no description or no
\* name, does not end the screener and is not in the result.
C7_PeerFailureIsolated ==
    ScrPeerFailed =>
        /\ scrPc # "raised"
        /\ scrLast.ticker \notin Range(scrComparables)

----------------------------------------------------------------------------
(* Floats as exact rationals *)

RECURSIVE GCD(_, _)
GCD(a, b) == IF b = 0 THEN a ELSE GCD(b, a % b)

Abs(x) == IF x < 0 THEN -x ELSE x

\* n / d for d # 0, in lowest terms with a positive denominator
Rat(n, d) ==
    LET g == GCD(Abs(n), Abs(d))
        s == IF d < 0 THEN -1 ELSE 1
    IN  [n |-> s * (n \div g), d |-> s * (d \div g)]

RatLess(a, b) == a.n * b.d < b.n * a.d
RatAdd(a, b) == Rat(a.n * b.d + b.n * a.d, a.d * b.d)
RatTimes(a, k) == Rat(a.n * k, a.d)
RatOver(a, k) == Rat(a.n, a.d * k)

----------------------------------------------------------------------------
(* The valuation engine *)

\* lines 129-130: what one comparable adds to pe_ratios
PEContribution(metrics) ==
    IF Truthy(metrics.Price) /\ Truthy(metrics.Earnings) /\ metrics.Earnings.v > 0
    THEN <<Rat(metrics.Price.v, metrics.Earnings.v)>>
    ELSE <<>>

\* lines 133-135: what one comparable adds to ev_ebitda_ratios
\* (enterprise_value = MarketCap)
EVContribution(metrics) ==
    IF Truthy(metrics.Ebitda) /\ metrics.Ebitda.v > 0 /\ Truthy(metrics.MarketCap)
    THEN <<Rat(metrics.MarketCap.v, metrics.Ebitda.v)>>
    ELSE <<>>

\* The k-th smallest element of a non-empty sample (ties in index order).
KthSmallest(sample, k) ==
    LET before(i) == { j \in 1..Len(sample) :
                         \/ RatLess(sample[j], sample[i])
                         \/ (~RatLess(sample[i], sample[j]) /\ j < i) }
    IN  sample[CHOOSE i \in 1..Len(sample) : Cardinality(before(i)) = k - 1]

\* a wrong median: the upper middle value of an even-sized sample
MedianUpperMiddle(sample) ==
    KthSmallest(sample, (Len(sample) \div 2) + 1)

\* pd.Series(sample).median() for a non-empty sample
Median(sample) ==
    LET n == Len(sample)
    IN  IF n % 2 = 1 THEN KthSmallest(sample, (n + 1) \div 2)
        ELSE RatOver(RatAdd(KthSmallest(sample, n \div 2),
                            KthSmallest(sample, (n \div 2) + 1)), 2)

\* Values of the fair_values dictionary: a float, or the string
\* 'N/A (Negative Earnings)'.
Number(r) == [text |-> "", v |-> r]
NegativeEarnings == [text |-> "N/A (Negative Earnings)", v |-> [n |-> 0, d |-> 1]]

\* line 161 without the test Earnings > 0
PEApplicableAnySign(target_metrics, pe_ratios) ==
    /\ Truthy(target_metrics.Earnings)
    /\ pe_ratios # <<>> /\ Median(pe_ratios).n # 0
    /\ Truthy(target_metrics.SharesOutstanding)

\* line 161: the condition of the P/E estimate
PEApplicable(target_metrics, pe_ratios) ==
    /\ Truthy(target_metrics.Earnings) /\ target_metrics.Earnings.v > 0
    /\ pe_ratios # <<>> /\ Median(pe_ratios).n # 0
    /\ Truthy(target_metrics.SharesOutstanding)

\* line 155: the condition of the EV/EBITDA estimate
EVApplicable(target_metrics, ev_ebitda_ratios) ==
    /\ Truthy(target_metrics.Ebitda)
    /\ ev_ebitda_ratios # <<>> /\ Median(ev_ebitda_ratios).n # 0
    /\ Truthy(target_metrics.SharesOutstanding)

\* lines 141-166: the fair_values dictionary, as a function on its keys
FairValues(target_metrics, pe_ratios, ev_ebitda_ratios) ==
    LET keys == {"P/E"} \cup
                IF EVApplicable(target_metrics, ev_ebitda_ratios)
                THEN {"EV/EBITDA"} ELSE {}
    IN  [ k \in keys |->
            IF k = "EV/EBITDA"
            THEN Number(RatOver(RatTimes(Median(ev_ebitda_ratios),
                                         target_metrics.Ebitda.v),
                                target_metrics.SharesOutstanding.v))
            ELSE IF PEApplicable(target_metrics, pe_ratios)
                 THEN Number(RatOver(RatTimes(Median(pe_ratios),
                                              target_metrics.Earnings.v),
                                     target_metrics.SharesOutstanding.v))
                 ELSE NegativeEarnings ]

RECURSIVE Ratios(_, _, _)
Ratios(Contribution(_), fetches, i) ==
    IF i > Len(fetches) THEN <<>>
    ELSE Contribution(fetches[i].val) \o Ratios(Contribution, fetches, i + 1)

\* comparable_company_analysis(target_ticker, comparables), given what
\* fetch_metrics_and_description does for the target (line 118) and for each
\* comparable (line 121).
comparable_company_analysis(target_fetch, comparable_fetches) ==
    IF target_fetch.exc # "none" THEN Raises(target_fetch.exc)
    ELSE IF \E i \in 1..Len(comparable_fetches) : comparable_fetches[i].exc # "none"
    THEN Raises("ProviderError")
    ELSE Returns([fair_values |->
                      FairValues(target_fetch.val,
                                 Ratios(PEContribution, comparable_fetches, 1),
                                 Ratios(EVContribution, comparable_fetches, 1)),
                  target_metrics |-> target_fetch.val])

----------------------------------------------------------------------------
(* The valuation engine, one comparable at a time *)

\* Largest number of comparables the valuation specification values.
MaxComps == 3

ValTargetFetches ==
    {Raises("ProviderError")} \cup
    { Returns(Metrics(Some(50), earnings, ebitda, Some(1000), shares,
                      Some(TargetDesc4), Some(ACME))) :
        earnings \in {NoneNum, Some(-50), Some(0), Some(50)},
        ebitda \in {NoneNum, Some(0), Some(100)},
        shares \in {NoneNum, Some(0), Some(10)} }

\* Price and Earnings, and Ebitda and MarketCap, of a comparable: every way
\* in which lines 129 and 133 accept or skip it.
ValPriceEarnings ==
    { <<NoneNum, Some(1)>>, <<Some(10), NoneNum>>, <<Some(10), Some(-1)>>,
      <<Some(-10), Some(1)>>, <<Some(10), Some(1)>>, <<Some(12), Some(1)>> }
ValEbitdaCap ==
    { <<NoneNum, Some(9)>>, <<Some(0), Some(9)>>, <<Some(1), NoneNum>>,
      <<Some(1), Some(9)>>, <<Some(1), Some(11)>> }

ValCompFetches ==
    {Raises("ProviderError")} \cup
    { Returns(Metrics(pe[1], pe[2], ec[1], ec[2], NoneNum,
                      Some(PeerDesc1), Some(Bunge))) :
        pe \in ValPriceEarnings, ec \in ValEbitdaCap }

NoMetrics == Metrics(NoneNum, NoneNum, NoneNum, NoneNum, NoneNum, NoneStr, NoneStr)

ValIdle ==
    /\ valPc = "idle" /\ valN = 0 /\ valTarget = NoMetrics /\ valI = 0
    /\ valPE = <<>> /\ valEV = <<>> /\ valFair = <<>>

ValInit ==
    /\ valPc = "call" /\ valN \in 0..MaxComps /\ valTarget = NoMetrics /\ valI = 0
    /\ valPE = <<>> /\ valEV = <<>> /\ valFair = <<>>

\* line 118
ValFetchTarget ==
    /\ valPc = "call"
    /\ \E f \in ValTargetFetches :
         /\ valPc' = IF f.exc = "none" THEN "comparables" ELSE "raised"
         /\ valTarget' = IF f.exc = "none" THEN f.val ELSE valTarget
    /\ valI' = 1
    /\ UNCHANGED <<valN, valPE, valEV, valFair>>
    /\ ValOnly

\* lines 121 and 127-135 for the comparable at position valI
ValComparable ==
    /\ valPc = "comparables" /\ valI <= valN
    /\ \E f \in ValCompFetches :
         IF f.exc # "none"
         THEN valPc' = "raised" /\ UNCHANGED <<valI, valPE, valEV>>
         ELSE /\ valPE' = valPE \o PEContribution(f.val)
              /\ valEV' = valEV \o EVContribution(f.val)
              /\ valI' = valI + 1
              /\ UNCHANGED valPc
    /\ UNCHANGED <<valN, valTarget, valFair>>
    /\ ValOnly

\* lines 141-168
ValEstimate ==
    /\ valPc = "comparables" /\ valI > valN
    /\ valFair' = FairValues(valTarget, valPE, valEV)
    /\ valPc' = "returned"
    /\ UNCHANGED <<valN, valTarget, valI, valPE, valEV>>
    /\ ValOnly

ValNext == ValFetchTarget \/ ValComparable \/ ValEstimate

\* The positions <<i, j>> of the middle of a sample: i = j, the middle value,
\* for an odd size; the two middle values, s[i] <= s[j], for an even size.
MiddleOf(sample) ==
    LET n == Len(sample)
        others(i, j) == (1..n) \ {i, j}
        half(i, j) == Cardinality(others(i, j)) \div 2
    IN  { p \in (1..n) \X (1..n) :
            /\ (n % 2 = 1) <=> (p[1] = p[2])
            /\ ~RatLess(sample[p[2]], sample[p[1]])
            /\ Cardinality({ k \in others(p[1], p[2]) :
                               ~RatLess(sample[p[1]], sample[k]) }) >= half(p[1], p[2])
            /\ Cardinality({ k \in others(p[1], p[2]) :
                               ~RatLess(sample[k], sample[p[2]]) }) >= half(p[1], p[2]) }

\* twice the median of the sample, as the fraction TwiceMedianNum / TwiceMedianDen
TwiceMedianNum(sample, p) ==
    sample[p[1]].n * sample[p[2]].d + sample[p[2]].n * sample[p[1]].d
TwiceMedianDen(sample, p) == sample[p[1]].d * sample[p[2]].d

MedianIsZero(sample) == \E p \in MiddleOf(sample) : TwiceMedianNum(sample, p) = 0

\* entry = median(sample) * fundamental / shares
IsMedianEstimate(entry, sample, fundamental, shares) ==
    /\ entry.text = ""
    /\ \E p \in MiddleOf(sample) :
         entry.v.n * 2 * TwiceMedianDen(sample, p) * shares
             = TwiceMedianNum(sample, p) * fundamental * entry.v.d

\* C4 as amended: a method whose sample is non-empty with a non-zero median,
\* whose target fundamental is present and non-zero (for P/E: greater than
\* 0) and whose SharesOutstanding is present and non-zero, gets the entry
\* median(sample) x fundamental / SharesOutstanding; the EV/EBITDA entry
\* exists only when target Ebitda, the median and SharesOutstanding are
\* all present.
C4_FairValueIsMedianEstimate ==
    valPc = "returned" =>
        /\ ( /\ valEV # <<>> /\ ~MedianIsZero(valEV)
             /\ Truthy(valTarget.Ebitda) /\ Truthy(valTarget.SharesOutstanding) )
           => /\ "EV/EBITDA" \in DOMAIN valFair
              /\ IsMedianEstimate(valFair["EV/EBITDA"], valEV,
                                  valTarget.Ebitda.v, valTarget.SharesOutstanding.v)
        /\ ( /\ valPE # <<>> /\ ~MedianIsZero(valPE)
             /\ valTarget.Earnings.present /\ valTarget.Earnings.v > 0
             /\ Truthy(valTarget.SharesOutstanding) )
           => /\ "P/E" \in DOMAIN valFair
              /\ IsMedianEstimate(valFair["P/E"], valPE,
                                  valTarget.Earnings.v, valTarget.SharesOutstanding.v)
        /\ "EV/EBITDA" \in DOMAIN valFair
           => /\ valTarget.Ebitda.present /\ valEV # <<>>
              /\ valTarget.SharesOutstanding.present

\* P/E sample [10, 12] and EV/EBITDA sample [9, 11] with Earnings 50,
\* Ebitda 100 and 10 shares (all in millions) give 55 and 100.
C4_Witness ==
    /\ valPc = "returned"
    /\ valPE = <<[n |-> 10, d |-> 1], [n |-> 12, d |-> 1]>>
    /\ valEV = <<[n |-> 9, d |-> 1], [n |-> 11, d |-> 1]>>
    /\ valTarget.Earnings = Some(50) /\ valTarget.Ebitda = Some(100)
    /\ valTarget.SharesOutstanding = Some(10)
    /\ valFair["P/E"] = Number([n |-> 55, d |-> 1])
    /\ valFair["EV/EBITDA"] = Number([n |-> 100, d |-> 1])

\* C4 as stated: every method whose sample is non-empty and whose target
\* fundamental and SharesOutstanding are present gets the entry
\* median(sample) x fundamental / SharesOutstanding.
C4_AsStated ==
    valPc = "returned" =>
        /\ ( /\ valEV # <<>>
             /\ valTarget.Ebitda.present /\ valTarget.SharesOutstanding.present )
           => /\ "EV/EBITDA" \in DOMAIN valFair
              /\ IsMedianEstimate(valFair["EV/EBITDA"], valEV,
                                  valTarget.Ebitda.v, valTarget.SharesOutstanding.v)
        /\ ( /\ valPE # <<>>
             /\ valTarget.Earnings.present /\ valTarget.SharesOutstanding.present )
           => /\ "P/E" \in DOMAIN valFair
              /\ IsMedianEstimate(valFair["P/E"], valPE,
                                  valTarget.Earnings.v, valTarget.SharesOutstanding.v)
        /\ "EV/EBITDA" \in DOMAIN valFair
           => /\ valTarget.Ebitda.present /\ valEV # <<>>
              /\ valTarget.SharesOutstanding.present

\* C5: fair_values always has a "P/E" entry; it is the sentinel whenever the
\* target's Earnings is missing or <= 0, and a number only when Earnings > 0,
\* a median P/E exists and SharesOutstanding is present.
C5_PEEntry ==
    valPc = "returned" =>
        /\ "P/E" \in DOMAIN valFair
        /\ ~(valTarget.Earnings.present /\ valTarget.Earnings.v > 0)
           => valFair["P/E"].text = "N/A (Negative Earnings)"
        /\ valFair["P/E"].text = ""
           => /\ valTarget.Earnings.present /\ valTarget.Earnings.v > 0
              /\ valPE # <<>>
              /\ valTarget.SharesOutstanding.present

\* negative target earnings with a usable P/E sample and share count
C5_Witness ==
    /\ valPc = "returned"
    /\ valTarget.Earnings = Some(-50) /\ valTarget.SharesOutstanding = Some(10)
    /\ valPE # <<>> /\ ~MedianIsZero(valPE)
    /\ valFair["P/E"] = NegativeEarnings

----------------------------------------------------------------------------
(* The spreadsheet store *)

\* A cell of the Stock / Metric / Value table: missing (None, NaN, an empty
\* cell), a string, or a number.
Null == [t |-> "null", s |-> "", x |-> [n |-> 0, d |-> 1]]
Str(s) == [t |-> "str", s |-> s, x |-> [n |-> 0, d |-> 1]]
Num(r) == [t |-> "num", s |-> "", x |-> r]
IntCell(k) == Num([n |-> k, d |-> 1])

Row(stock, metric, value) == [Stock |-> stock, Metric |-> metric, Value |-> value]

\* The file: absent, or a sheet of rows.
NoFile == [exists |-> FALSE, rows |-> <<>>]
Sheet(rows) == [exists |-> TRUE, rows |-> rows]

\* The strings pd.read_excel turns into NaN when called, as on line 175,
\* with its defaults (na_values=None, keep_default_na=True).
DefaultNaStrings ==
    { "", "#N/A", "#N/A N/A", "#NA", "-1.#IND", "-1.#QNAN", "-NaN", "-nan",
      "1.#IND", "1.#QNAN", "<NA>", "N/A", "NA", "NULL", "NaN", "None",
      "n/a", "nan", "null" }

ParseCell(c) == IF c.t = "str" /\ c.s \in DefaultNaStrings THEN Null ELSE c

ParseRow(r) ==
    [Stock |-> ParseCell(r.Stock), Metric |-> ParseCell(r.Metric),
     Value |-> ParseCell(r.Value)]

\* a reader that forgets the sheet: the frame always starts empty
LoadFrameEmpty(sheet) == <<>>

\* lines 173-178: df, the rows read from the file or an empty frame
LoadFrame(sheet) ==
    IF sheet.exists THEN [i \in 1..Len(sheet.rows) |-> ParseRow(sheet.rows[i])]
    ELSE <<>>

AllNull(r) == r.Stock.t = "null" /\ r.Metric.t = "null" /\ r.Value.t = "null"

\* line 181: pd.DataFrame(data).dropna(how='all')
DropAllNull(data) == SelectSeq(data, LAMBDA r : ~AllNull(r))

\* lines 184-187: concatenate and rewrite the whole sheet
WriteFrame(df, data) == Sheet(df \o DropAllNull(data))

\* append_to_excel(data, file_name): the file after the call
append_to_excel(data, sheet) == WriteFrame(LoadFrame(sheet), data)

----------------------------------------------------------------------------
(* Calls of append_to_excel one after the other *)

\* Number of calls, and longest batch, of the store specification.
MaxCalls == 3
MaxBatch == 2

StoreRows ==
    { Row(Null, Null, Null),
      Row(Str("ADM"), Str("EV/EBITDA Fair Value"), Str("N/A")),
      Row(Str("ADM"), Str("P/E Fair Value"), Str("N/A (Negative Earnings)")),
      Row(Str("ADM"), Str("P/E Fair Value"), IntCell(55)),
      Row(Str("ADM"), Str("Current Price"), Null) }

StoreBatches == UNION { [1..n -> StoreRows] : n \in 0..MaxBatch }

StoreIdle == stCalls = 0 /\ stBefore = NoFile /\ stBatch = <<>>

StoreInit ==
    /\ file \in {NoFile, Sheet(<<>>)}
    /\ stCalls = 0 /\ stBefore = file /\ stBatch = <<>>

StoreAppend ==
    /\ stCalls < MaxCalls
    /\ \E data \in StoreBatches :
         /\ file' = append_to_excel(data, file)
         /\ stBatch' = data
    /\ stBefore' = file
    /\ stCalls' = stCalls + 1
    /\ StoreOnly

StoreNext == StoreAppend

\* C8: after each call the sheet holds the rows it held before the call,
\* unchanged and in the same order, followed by the rows of the batch that
\* are not entirely null; no all-null row is stored.
C8_AppendOnly ==
    stCalls > 0 =>
        /\ file.exists
        /\ file.rows = stBefore.rows \o SelectSeq(stBatch, LAMBDA r : ~AllNull(r))
        /\ \A i \in 1..Len(file.rows) : ~AllNull(file.rows[i])

\* what does hold: no row is lost or reordered, and each earlier row is kept
\* up to the parsing of its cells
C8_RowsKeptUpToParsing ==
    stCalls > 0 =>
        /\ file.exists
        /\ Len(file.rows) = Len(stBefore.rows) + Len(SelectSeq(stBatch, LAMBDA r : ~AllNull(r)))
        /\ \A i \in 1..Len(stBefore.rows) : file.rows[i] = ParseRow(stBefore.rows[i])
        /\ \A i \in 1..Len(file.rows) : ~AllNull(file.rows[i])

----------------------------------------------------------------------------
(* Two processes calling append_to_excel on the same file *)

\* Number of calls each process makes in the concurrent specification.
ProcCalls == 2

Procs == {1, 2}
ProcTicker(p) == IF p = 1 THEN "ADM" ELSE "BG"

\* the rows process p may append in its k-th call
ProcBatches(p, k) ==
    { <<Row(Str(ProcTicker(p)), Str("EV/EBITDA Fair Value"), v),
        Row(Str(ProcTicker(p)), Str("Current Price"), IntCell(k))>> :
        v \in {IntCell(100), Str("N/A")} }

AppIdle ==
    /\ singleWriter = TRUE
    /\ appPc = [p \in Procs |-> "idle"]
    /\ appDf = [p \in Procs |-> <<>>]
    /\ appData = [p \in Procs |-> <<>>]
    /\ appCalls = [p \in Procs |-> 0]
    /\ appended = {}

AppInit ==
    /\ singleWriter \in BOOLEAN
    /\ file \in {NoFile, Sheet(<<Row(Str("HRL"), Str("Current Price"), IntCell(30))>>)}
    /\ appPc = [p \in Procs |-> "idle"]
    /\ appDf = [p \in Procs |-> <<>>]
    /\ appData = [p \in Procs |-> <<>>]
    /\ appCalls = [p \in Procs |-> 0]
    /\ appended = {}

\* lines 173-181 in process p.  Under the single-writer assumption a call
\* starts only when no other call is in progress.
AppLoad(p) ==
    /\ appPc[p] = "idle" /\ appCalls[p] < ProcCalls
    /\ singleWriter => \A q \in Procs \ {p} : appPc[q] = "idle"
    /\ \E data \in ProcBatches(p, appCalls[p] + 1) :
         appData' = [appData EXCEPT ![p] = data]
    /\ appDf' = [appDf EXCEPT ![p] = LoadFrame(file)]
    /\ appPc' = [appPc EXCEPT ![p] = "loaded"]
    /\ UNCHANGED <<file, appCalls, appended, singleWriter>>
    /\ AppOnly

\* lines 184-187 in process p
AppWrite(p) ==
    /\ appPc[p] = "loaded"
    /\ file' = WriteFrame(appDf[p], appData[p])
    /\ appended' = appended \cup Range(appData[p])
    /\ appCalls' = [appCalls EXCEPT ![p] = @ + 1]
    /\ appPc' = [appPc EXCEPT ![p] = "idle"]
    /\ UNCHANGED <<appDf, appData, singleWriter>>
    /\ AppOnly

AppQuiet == \A p \in Procs : appPc[p] = "idle"

\* the row is in the file, as written or as a later call has parsed it
InFile(r) == \E i \in 1..Len(file.rows) : file.rows[i] \in {r, ParseRow(r)}

\* C10: when calls never overlap, every row appended by a finished call is
\* in the file; with overlapping calls a state without such a row is
\* reachable (C10_LostRow).
C10_SingleWriterKeepsRows ==
    singleWriter => \A r \in appended : InFile(r)

\* both processes have finished, calls overlapped, and a row that one of
\* them appended is not in the file
C10_LostRow ==
    /\ ~singleWriter /\ AppQuiet
    /\ \A p \in Procs : appCalls[p] = ProcCalls
    /\ \E r \in appended : ~InFile(r)

----------------------------------------------------------------------------
(* The main pipeline *)

\* str.strip(): leading and trailing whitespace removed
Strip(s) ==
    IF \A i \in 1..Len(s) : s[i] \in WhiteSpace THEN <<>>
    ELSE LET first == CHOOSE i \in 1..Len(s) :
                          s[i] \notin WhiteSpace /\ \A k \in 1..(i - 1) : s[k] \in WhiteSpace
             last == CHOOSE i \in 1..Len(s) :
                         s[i] \notin WhiteSpace /\ \A k \in (i + 1)..Len(s) : s[k] \in WhiteSpace
         IN  SubSeq(s, first, last)

\* a search that takes any answer for a yes
search_stock_any_answer(stock_input, info, answer) ==
    IF info.exc # "none" THEN [present |-> FALSE, v |-> ""]
    ELSE IF info.val.CompanyName.present
         THEN [present |-> TRUE, v |-> stock_input]
         ELSE [present |-> FALSE, v |-> ""]

\* search_stock(stock_input): the ticker or None, given what the provider
\* does for yf.Ticker(stock_input).info (its CompanyName field stands for
\* the key shortName) and what the user types at the prompt.
search_stock(stock_input, info, answer) ==
    IF info.exc # "none" THEN [present |-> FALSE, v |-> ""]
    ELSE IF info.val.CompanyName.present
         THEN IF Lower(Strip(answer)) = <<"y">>
              THEN [present |-> TRUE, v |-> stock_input]
              ELSE [present |-> FALSE, v |-> ""]
         ELSE [present |-> FALSE, v |-> ""]

\* truth value of target_ticker on line 209: None and '' are false
TickerTruthy(t) == t.present /\ t.v # ""

\* lines 232-236: the three rows main saves
data_to_save(target_ticker, fair_values, target_metrics) ==
    << Row(Str(target_ticker), Str("EV/EBITDA Fair Value"),
           IF "EV/EBITDA" \in DOMAIN fair_values
           THEN Num(fair_values["EV/EBITDA"].v) ELSE Str("N/A")),
       Row(Str(target_ticker), Str("P/E Fair Value"),
           IF "P/E" \in DOMAIN fair_values
           THEN IF fair_values["P/E"].text = ""
                THEN Num(fair_values["P/E"].v) ELSE Str(fair_values["P/E"].text)
           ELSE Str("N/A")),
       Row(Str(target_ticker), Str("Current Price"),
           IF target_metrics.Price.present
           THEN IntCell(target_metrics.Price.v) ELSE Null) >>

\* Number of peers of PEER_COMPANIES that main screens in the pipeline
\* specification.
MainPeers == 2

MainPeerList == SubSeq(PEER_COMPANIES, 1, IF MainPeers < 5 THEN MainPeers ELSE 5)

MainAnswers == { <<"y">>, <<"Y">>, <<" ", "y", " ">>, <<"n">>, <<>>, <<"y", "e", "s">> }

\* yf.Ticker(stock_input).info in search_stock
MainInfos ==
    { Raises("ProviderError"),
      Returns(NoMetrics),
      Returns(Metrics(NoneNum, NoneNum, NoneNum, NoneNum, NoneNum, NoneStr, Some(ACME))) }

\* fetch_metrics_and_description for a ticker the provider knows
MainTargetFetches ==
    {Raises("ProviderError")} \cup
    { Returns(Metrics(price, earnings, ebitda, Some(1000), Some(10), d, Some(ACME))) :
        price \in {NoneNum, Some(50)},
        earnings \in {Some(-50), Some(50)},
        ebitda \in {NoneNum, Some(100)},
        d \in {Some(TargetDesc20), Some(TargetDesc7)} }

\* fetch_metrics_and_description(None): yf.Ticker(None) fails, or yields a
\* record without any of the fields
MainNoneFetches == { Raises("AttributeError"), Returns(NoMetrics) }

\* fetch_metrics_and_description for a peer, in the screener and in the
\* valuation
MainPeerFetches ==
    { Raises("ProviderError"),
      Returns(Metrics(Some(10), Some(1), Some(1), Some(9), NoneNum,
                      Some(PeerDesc3), Some(Bunge))),
      Returns(Metrics(Some(12), Some(1), Some(1), Some(11), NoneNum,
                      Some(PeerDesc1), Some(Bunge))),
      Returns(Metrics(NoneNum, NoneNum, NoneNum, NoneNum, NoneNum,
                      Some(PeerDescStop), NoneStr)) }

MainFiles == { NoFile, Sheet(<<Row(Str("HRL"), Str("EV/EBITDA Fair Value"), Str("N/A"))>>) }

MainIdle ==
    /\ mainPc = "idle" /\ mainInput = "" /\ mainShortName = FALSE /\ mainAnswer = <<>>
    /\ mainTicker = [present |-> FALSE, v |-> ""] /\ mainTarget = NoMetrics
    /\ mainComparables = <<>> /\ mainFair = <<>> /\ mainReport = ""
    /\ mainFetched = FALSE /\ mainScreened = FALSE /\ mainValued = FALSE
    /\ mainWrites = 0 /\ mainFile0 = NoFile

MainInit ==
    /\ mainPc = "start" /\ mainInput \in {"ACME", ""}
    /\ mainShortName = FALSE /\ mainAnswer = <<>>
    /\ mainTicker = [present |-> FALSE, v |-> ""] /\ mainTarget = NoMetrics
    /\ mainComparables = <<>> /\ mainFair = <<>> /\ mainReport = ""
    /\ mainFetched = FALSE /\ mainScreened = FALSE /\ mainValued = FALSE
    /\ mainWrites = 0
    /\ file \in MainFiles /\ mainFile0 = file

\* lines 193-194: the ticker is read and searched
MainSearch ==
    /\ mainPc = "start"
    /\ \E info \in MainInfos, answer \in MainAnswers :
         /\ mainTicker' = search_stock(mainInput, info, answer)
         /\ mainShortName' = (info.exc = "none" /\ info.val.CompanyName.present)
         /\ mainAnswer' = IF mainShortName' THEN answer ELSE <<>>
    /\ mainPc' = "fetch"
    /\ UNCHANGED <<mainInput, mainTarget, mainComparables, mainFair, mainReport,
                   mainFetched, mainScreened, mainValued, mainWrites, mainFile0, file>>
    /\ MainOnly

\* line 197: the target's metrics are fetched, whatever search_stock returned
MainFetchTarget ==
    /\ mainPc = "fetch"
    /\ \E f \in IF mainTicker.present THEN MainTargetFetches ELSE MainNoneFetches :
         /\ mainPc' = IF f.exc = "none" THEN "screen" ELSE "crashed"
         /\ mainTarget' = IF f.exc = "none" THEN f.val ELSE mainTarget
    /\ mainFetched' = TRUE
    /\ UNCHANGED <<mainInput, mainShortName, mainAnswer, mainTicker, mainComparables,
                   mainFair, mainReport, mainScreened, mainValued, mainWrites,
                   mainFile0, file>>
    /\ MainOnly

\* line 203: the screener runs on the hardcoded peer list
MainScreen ==
    /\ mainPc = "screen"
    /\ \E fetches \in [1..Len(MainPeerList) -> MainPeerFetches] :
         \E r \in {find_comparables(mainTarget, MainPeerList, fetches)} :
             /\ mainPc' = IF r.exc = "none" THEN "screened" ELSE "crashed"
             /\ mainComparables' = IF r.exc = "none" THEN r.val ELSE mainComparables
    /\ mainScreened' = TRUE
    /\ UNCHANGED <<mainInput, mainShortName, mainAnswer, mainTicker, mainTarget,
                   mainFair, mainReport, mainFetched, mainValued, mainWrites,
                   mainFile0, file>>
    /\ MainOnly

\* lines 205-207
MainNoComparables ==
    /\ mainPc = "screened" /\ mainComparables = <<>>
    /\ mainReport' = "No suitable comparables found"
    /\ mainPc' = "done"
    /\ UNCHANGED <<mainInput, mainShortName, mainAnswer, mainTicker, mainTarget,
                   mainComparables, mainFair, mainFetched, mainScreened, mainValued,
                   mainWrites, mainFile0, file>>
    /\ MainOnly

\* lines 209 and 240-241
MainNoValidStock ==
    /\ mainPc = "screened" /\ mainComparables # <<>> /\ ~TickerTruthy(mainTicker)
    /\ mainReport' = "No valid stock selected."
    /\ mainPc' = "done"
    /\ UNCHANGED <<mainInput, mainShortName, mainAnswer, mainTicker, mainTarget,
                   mainComparables, mainFair, mainFetched, mainScreened, mainValued,
                   mainWrites, mainFile0, file>>
    /\ MainOnly

\* lines 209-211: the valuation, which fetches the target and every
\* comparable again
MainValuation ==
    /\ mainPc = "screened" /\ mainComparables # <<>> /\ TickerTruthy(mainTicker)
    /\ \E tf \in MainTargetFetches,
          cfs \in [1..Len(mainComparables) -> MainPeerFetches] :
         \E r \in {comparable_company_analysis(tf, cfs)} :
             /\ mainPc' = IF r.exc = "none" THEN "valued" ELSE "crashed"
             /\ mainFair' = IF r.exc = "none" THEN r.val.fair_values ELSE mainFair
             /\ mainTarget' = IF r.exc = "none" THEN r.val.target_metrics ELSE mainTarget
    /\ mainValued' = TRUE
    /\ UNCHANGED <<mainInput, mainShortName, mainAnswer, mainTicker, mainComparables,
                   mainReport, mainFetched, mainScreened, mainWrites, mainFile0, file>>
    /\ MainOnly

\* lines 213-239: the report is printed and the three rows are appended
MainSave ==
    /\ mainPc = "valued"
    /\ file' = append_to_excel(data_to_save(mainTicker.v, mainFair, mainTarget), file)
    /\ mainWrites' = mainWrites + 1
    /\ mainReport' = "Data has been appended to the Excel file."
    /\ mainPc' = "done"
    /\ UNCHANGED <<mainInput, mainShortName, mainAnswer, mainTicker, mainTarget,
                   mainComparables, mainFair, mainFetched, mainScreened, mainValued,
                   mainFile0>>
    /\ MainOnly

MainNext ==
    \/ MainSearch \/ MainFetchTarget \/ MainScreen \/ MainNoComparables
    \/ MainNoValidStock \/ MainValuation \/ MainSave

\* the user confirmed a ticker the provider knows by name
MainConfirmed ==
    mainShortName /\ mainAnswer \in { <<"y">>, <<"Y">>, <<" ", "y", " ">> }

MainEnded == mainPc \in {"done", "crashed"}

\* C6: once search_stock has returned no ticker, no target metrics are
\* fetched, the screener is not run, and the run ends, without an uncaught
\* error, by reporting "No valid stock selected."
C6_RejectionHalts ==
    mainPc \notin {"idle", "start"} /\ ~MainConfirmed =>
        /\ ~mainFetched /\ ~mainScreened /\ ~mainValued
        /\ mainPc # "crashed"
        /\ mainPc = "done" => mainReport = "No valid stock selected."

\* C9: the valuation runs and the file is written only for a confirmed
\* ticker with a non-empty comparable set; the file is written at most
\* once, and exactly once when the run completes after the valuation; a
\* write adds exactly three rows (EV/EBITDA fair value or "N/A", P/E fair
\* value or its sentinel, current price) for the ticker; otherwise the file
\* is as it was.
C9_WriteOnceThreeRows ==
    /\ mainWrites <= 1
    /\ mainValued => MainConfirmed /\ mainComparables # <<>>
    /\ mainWrites = 0 => file = mainFile0
    /\ (mainPc = "done" /\ mainValued) => mainWrites = 1
    /\ mainWrites = 1 =>
        LET k == Len(mainFile0.rows)
        IN  /\ MainConfirmed /\ mainComparables # <<>> /\ mainValued
            /\ file.exists /\ Len(file.rows) = k + 3
            /\ \A i \in 1..3 : file.rows[k + i].Stock = Str(mainInput)
            /\ file.rows[k + 1].Metric = Str("EV/EBITDA Fair Value")
            /\ file.rows[k + 1].Value.t = "num" \/ file.rows[k + 1].Value = Str("N/A")
            /\ file.rows[k + 2].Metric = Str("P/E Fair Value")
            /\ \/ file.rows[k + 2].Value.t = "num"
               \/ file.rows[k + 2].Value = Str("N/A (Negative Earnings)")
            /\ file.rows[k + 3].Metric = Str("Current Price")
            /\ file.rows[k + 3].Value = IF mainTarget.Price.present
                                        THEN IntCell(mainTarget.Price.v) ELSE Null

\* a confirmed run wrote its three rows after an existing row
C9_Witness ==
    /\ mainPc = "done" /\ mainWrites = 1 /\ mainFile0.exists
    /\ Len(file.rows) = Len(mainFile0.rows) + 3
    /\ file.rows[Len(file.rows) - 2].Value = Str("N/A")
    /\ file.rows[Len(file.rows) - 1].Value = Str("N/A (Negative Earnings)")

----------------------------------------------------------------------------
(* Specifications *)

InitKw ==
    KwInit /\ ScrIdle /\ ValIdle /\ file = NoFile /\ StoreIdle /\ AppIdle /\ MainIdle
SpecKw == InitKw /\ [][KwNext]_vars

InitScreen ==
    ScrInit /\ KwIdle /\ ValIdle /\ file = NoFile /\ StoreIdle /\ AppIdle /\ MainIdle
SpecScreen == InitScreen /\ [][ScrNext]_vars

InitVal ==
    ValInit /\ KwIdle /\ ScrIdle /\ file = NoFile /\ StoreIdle /\ AppIdle /\ MainIdle
SpecVal == InitVal /\ [][ValNext]_vars

InitStore == StoreInit /\ KwIdle /\ ScrIdle /\ ValIdle /\ AppIdle /\ MainIdle
SpecStore == InitStore /\ [][StoreNext]_vars

AppNext == \E p \in Procs : AppLoad(p) \/ AppWrite(p)

InitAppend == AppInit /\ KwIdle /\ ScrIdle /\ ValIdle /\ StoreIdle /\ MainIdle
SpecAppend == InitAppend /\ [][AppNext]_vars

InitMain == MainInit /\ KwIdle /\ ScrIdle /\ ValIdle /\ StoreIdle /\ AppIdle
SpecMain == InitMain /\ [][MainNext]_vars

Spec == SpecMain

====
